---- MODULE Spec2Model ----
(***************************************************************************)
(* A model of the hardened auto-straightener (src/hardened_straightener.py) *)
(*                                                                         *)
(*  - Spec      one HardenedStraightener.straighten_image call after the   *)
(*              other: decode, the orientation cascade (CNN -> Tesseract   *)
(*              OSD -> line geometry), the coarse rotation, the skew       *)
(*              correction and the result dict.                            *)
(*  - SpecLoad  several threads running the first lines of                 *)
(*              detect_orientation and _get_orientation_model on the       *)
(*              process-wide model variable.                               *)
(*                                                                         *)
(* Units.  A confidence is a rational [num, den] compared by cross          *)
(* multiplication, so 0.6, 0.5, 0.3, 0.1, votes/len and conf/100 are exact.  *)
(* A skew angle is an integer number of ticks of 0.05 degree; the segment    *)
(* angles drawn are even numbers of ticks, so the mean of two of them (the   *)
(* median of an even number of angles) is a whole number of ticks.           *)
(* The orientation of the image content is a number of clockwise quarter     *)
(* turns away from upright, 0..3.                                            *)
(***************************************************************************)
EXTENDS Integers, Sequences, FiniteSets, TLC

VARIABLES
    pc,         \* position of the current straighten_image call
    input,      \* kind of image_input while the call reads it
    orient,     \* clockwise quarter turns of cv_img away from upright
    cnn,        \* what the CNN stage did in the current detect_orientation call
    osd,        \* what the Tesseract OSD stage did
    geo,        \* what the geometry stage did
    est,        \* the value detect_orientation returned
    skewin,     \* what detect_skew_angle saw in the current correct_skew call
    skewest,    \* the (angle, confidence) detect_skew_angle returned
    result,     \* the dict straighten_image returned
    orientation_model,  \* the module global _orientation_model (0 is None)
    self_model,         \* orientation_detector.model of the shared instance
    tpc,        \* position of each thread in detect_orientation
    tlocal,     \* the instance a thread holds between two of its steps
    loads,      \* constructor calls that returned an instance
    sk_pc,      \* correct_skew calls made on the image: "idle", "once", "twice"
    sk_in,      \* what line detection finds in the image before the first call
    sk_arg,     \* the angle argument of the first correct_skew call
    sk_img,     \* what line detection finds in the image as it is now
    sk_angle,   \* the angle each call worked with (given or detected)
    sk_out,     \* what each call returned
    c_pc,       \* position of the current warp_card call
    c_k,        \* index of the strategy of the current loop iteration
    c_found,    \* the contours cv2.findContours returned in this iteration
    c_contours, \* contours: the sorted, truncated list of line 40
    c_examined, \* how many contours the inner loop of this iteration examined
    c_hist,     \* per strategy evaluated so far: whether it gave the quad
    c_quad,     \* quad (the accepted candidate) or NoQuad
    c_used,     \* strategy_used
    c_out,      \* how the call ended: return value, files written, log lines
    c_pts,      \* the vertices of quad, and pts_src once they are ordered
    g_in,       \* the lines cv2.HoughLines handed to _geometry_fallback
    g_out,      \* what _geometry_fallback returned for them
    o_pc,       \* position of the current complete_straightening call
    o_res,      \* result of detect_best_rotation
    o_path,     \* rotated_path
    o_skew,     \* what OptimizedSkewCorrector.detect_skew_angle returned
    o_out,      \* how the call ended
    a_total,    \* stats.total_requests
    a_succ,     \* stats.successful_requests
    a_fail,     \* stats.failed_requests
    a_req       \* the requests being handled, per connection

pipevars == <<pc, input, orient, cnn, osd, geo, est, skewin, skewest, result>>
loadvars == <<orientation_model, self_model, tpc, tlocal, loads>>
skewvars == <<sk_pc, sk_in, sk_arg, sk_img, sk_angle, sk_out>>
cropvars == <<c_pc, c_k, c_found, c_contours, c_examined, c_hist, c_quad, c_used, c_out, c_pts>>
geovars == <<g_in, g_out>>
optvars == <<o_pc, o_res, o_path, o_skew, o_out>>
apivars == <<a_total, a_succ, a_fail, a_req>>
vars == <<pipevars, loadvars, skewvars, cropvars, geovars, optvars, apivars>>

----------------------------------------------------------------------------
(* Bounds of the model *)

MaxLines == 2       \* Hough lines handed to the geometry stage
MaxSegs == 2        \* HoughLinesP segments handed to detect_skew_angle
NumThreads == 2     \* threads calling detect_orientation
MaxLoads == 3       \* successful constructor calls followed

----------------------------------------------------------------------------
(* Confidences *)

Conf(n, d) == [num |-> n, den |-> d]
ConfLt(a, b) == a.num * b.den < b.num * a.den
ConfEq(a, b) == a.num * b.den = b.num * a.den
ConfLe(a, b) == a.num * b.den <= b.num * a.den

confidence_threshold == Conf(6, 10)
osd_confidence_threshold == Conf(5, 10)

RightAngles == {0, 90, 180, 270}

(* The values the three engines hand to the code.                          *)
(* DocImgOrientationClassification(PP-LCNet_x1_0_doc_ori) has the four     *)
(* class labels "0", "90", "180", "270" and a softmax score in [0, 1].     *)
CnnLabels == RightAngles
CnnScores == {Conf(1, 10), Conf(3, 10), Conf(5, 10), Conf(6, 10), Conf(9, 10)}
(* Tesseract's OSD reports Rotate in {0, 90, 180, 270} and an orientation  *)
(* confidence that is a difference of accumulated log scores: it is not a  *)
(* percentage and has no upper bound of 100.                               *)
OsdRotates == RightAngles
OsdConfs == {10, 30, 50, 120}
(* cv2.HoughLines yields (rho, theta) with theta in [0, pi); theta is kept *)
(* in whole degrees and rho, which the code never reads, is left out.      *)
Thetas == {0, 45, 90, 136}

SeqsUpTo(S, n) == UNION {[1..k -> S] : k \in 0..n}

NoStage == [status |-> "none", angle |-> 0, conf |-> Conf(0, 1), lines |-> <<>>]
Stage(s, a, c, l) == [status |-> s, angle |-> a, conf |-> c, lines |-> l]

CnnOutcomes ==
    {Stage("unavailable", 0, Conf(0, 1), <<>>), Stage("raised", 0, Conf(0, 1), <<>>)}
    \cup {Stage("ok", l, s, <<>>) : l \in CnnLabels, s \in CnnScores}
OsdOutcomes ==
    {Stage("raised", 0, Conf(0, 1), <<>>)}
    \cup {Stage("ok", r, Conf(c, 1), <<>>) : r \in OsdRotates, c \in OsdConfs}
GeoOutcomes ==
    {Stage("raised", 0, Conf(0, 1), <<>>)}
    \cup {Stage("ok", 0, Conf(0, 1), l) : l \in SeqsUpTo(Thetas, MaxLines)}

----------------------------------------------------------------------------
(* HardenedOrientationDetector *)

Exc == [raised |-> TRUE]
IsExc(x) == "raised" \in DOMAIN x

Estimate(a, c, m, f) ==
    [angle |-> a, confidence |-> c, method |-> m, fallback_used |-> f]

(* lines 188-210: the angle of one (rho, theta) line and its bucket *)
LineAngle(theta) == theta - 90
Bucket(angle) ==
    LET a == (angle + 360) % 360
    IN  IF a <= 45 \/ a > 315 THEN 0
        ELSE IF 45 < a /\ a <= 135 THEN 90
        ELSE IF 135 < a /\ a <= 225 THEN 180
        ELSE 270

TopLines == 20
Take(s, n) == SubSeq(s, 1, IF Len(s) < n THEN Len(s) ELSE n)
(* a variant without the cut of line 178 *)
BucketAllLines(lines) == [i \in 1..Len(lines) |-> Bucket(LineAngle(lines[i]))]

(* lines 178-210 *)
BucketAngles(lines) ==
    LET top == Take(lines, TopLines)
    IN  [i \in 1..Len(top) |-> Bucket(LineAngle(top[i]))]

Count(angles, b) == Cardinality({i \in 1..Len(angles) : angles[i] = b})
(* a variant that returns the largest count instead of its key *)
BestCount(angles) ==
    CHOOSE n \in 0..Len(angles) :
        /\ \E b \in RightAngles : Count(angles, b) = n
        /\ \A o \in RightAngles : Count(angles, o) <= n

(* max(angle_counts, key=angle_counts.get) over the keys 0, 90, 180, 270 in
   insertion order: the first key holding the largest count *)
BestAngle(angles) ==
    CHOOSE b \in RightAngles :
        /\ \A o \in RightAngles : Count(angles, o) <= Count(angles, b)
        /\ \A o \in RightAngles : Count(angles, o) = Count(angles, b) => b <= o

GeometryDefault == Estimate(0, Conf(3, 10), "geometry_default", TRUE)
(* a variant with the values of the unreachable handler of lines 247-255 *)
ErrorEstimate == Estimate(0, Conf(0, 10), "error", TRUE)
DefaultEstimate == Estimate(0, Conf(1, 10), "default", TRUE)

(* the try block of _geometry_fallback, lines 163-236 *)
geometry_body(g) ==
    IF g.status = "raised" THEN Exc
    ELSE LET angles == BucketAngles(g.lines)
         IN  IF Len(g.lines) > 0 /\ Len(angles) > 0
             THEN Estimate(BestAngle(angles),
                           Conf(Count(angles, BestAngle(angles)), Len(angles)),
                           "geometry", TRUE)
             ELSE GeometryDefault

(* a variant without the handler of lines 238-245 *)
geometry_uncaught(g) == geometry_body(g)

(* lines 160-245 *)
geometry_fallback(g) ==
    IF IsExc(geometry_body(g)) THEN DefaultEstimate ELSE geometry_body(g)

(* line 112: float(osd.get('orientation_conf', 0)) / 100.0 *)
OsdConfidence(o) == Conf(o.conf.num, 100 * o.conf.den)

(* lines 117 and 130: the geometry stage runs *)
NeedGeometry(o) ==
    \/ o.status = "raised"
    \/ o.status = "ok" /\ ConfLt(OsdConfidence(o), osd_confidence_threshold)

(* the try block of _tesseract_osd_fallback, lines 101-128 *)
osd_body(o, g) ==
    IF o.status = "raised" THEN Exc
    ELSE LET confidence == OsdConfidence(o)
             own == Estimate(o.angle, confidence, "tesseract_osd", TRUE)
         IN  IF NeedGeometry(o)
             THEN LET geometry_result == geometry_fallback(g)
                  IN  IF IsExc(geometry_result) THEN Exc
                      ELSE IF ConfLt(confidence, geometry_result.confidence)
                           THEN geometry_result
                           ELSE own
             ELSE own

(* lines 98-132 *)
tesseract_osd_fallback(o, g) ==
    IF IsExc(osd_body(o, g)) THEN geometry_fallback(g) ELSE osd_body(o, g)

(* a variant that also escalates at the threshold itself *)
NeedOsdAtThreshold(c) ==
    \/ c.status \in {"unavailable", "raised"}
    \/ c.status = "ok" /\ ConfLe(c.conf, confidence_threshold)

(* lines 59, 79 and 94: the OSD stage runs *)
NeedOsd(c) ==
    \/ c.status \in {"unavailable", "raised"}
    \/ c.status = "ok" /\ ConfLt(c.conf, confidence_threshold)

(* a variant of line 84 that prefers the fallback on equal confidence *)
detect_body_ties_to_fallback(c, o, g) ==
    IF c.status = "unavailable" THEN tesseract_osd_fallback(o, g)
    ELSE IF c.status = "raised" THEN Exc
    ELSE LET own == Estimate(c.angle, c.conf, "paddleocr", FALSE)
         IN  IF NeedOsd(c)
             THEN LET fallback_result == tesseract_osd_fallback(o, g)
                  IN  IF IsExc(fallback_result) THEN Exc
                      ELSE IF ConfLe(c.conf, fallback_result.confidence)
                           THEN fallback_result
                           ELSE own
             ELSE own

(* the try block of detect_orientation, lines 56-92 *)
detect_body(c, o, g) ==
    IF c.status = "unavailable" THEN tesseract_osd_fallback(o, g)
    ELSE IF c.status = "raised" THEN Exc
    ELSE LET own == Estimate(c.angle, c.conf, "paddleocr", FALSE)
         IN  IF NeedOsd(c)
             THEN LET fallback_result == tesseract_osd_fallback(o, g)
                  IN  IF IsExc(fallback_result) THEN Exc
                      ELSE IF ConfLt(c.conf, fallback_result.confidence)
                           THEN fallback_result
                           ELSE own
             ELSE own

(* lines 45-96 *)
detect_orientation(c, o, g) ==
    IF IsExc(detect_body(c, o, g)) THEN tesseract_osd_fallback(o, g)
    ELSE detect_body(c, o, g)

----------------------------------------------------------------------------
(* HardenedSkewCorrector.  Angles in ticks of 0.05 degree. *)

max_skew_angle == 100       \* 5.0 degrees
min_skew_threshold == 6     \* 0.3 degrees
Deg45 == 900
Deg90 == 1800

Abs(x) == IF x < 0 THEN 0 - x ELSE x

(* A HoughLinesP segment (x1, y1, x2, y2) is kept as the value
   arctan2(y2 - y1, x2 - x1) * 180 / pi has for it, in (-180, 180] degrees;
   x2 = x1 holds exactly for the segments whose value is 90 or -90. *)
SegAngles == {0 - 1800, 0 - 60, 0, 6, 100, 104, 3400}
Vertical(raw) == raw = Deg90 \/ raw = 0 - Deg90

SkewInputs ==
    {[status |-> "raised", lines |-> <<>>]}
    \cup {[status |-> "ok", lines |-> l] : l \in SeqsUpTo(SegAngles, MaxSegs)}
NoSkewInput == [status |-> "none", lines |-> <<>>]

(* lines 310-314 *)
NormalizeAngle(angle) ==
    IF angle > Deg45 THEN angle - Deg90
    ELSE IF angle < 0 - Deg45 THEN angle + Deg90
    ELSE angle

NotVertical(raw) == ~Vertical(raw)
SegmentAngles(lines) ==
    LET kept == SelectSeq(lines, NotVertical)
    IN  [i \in 1..Len(kept) |-> NormalizeAngle(kept[i])]

RECURSIVE InsertSorted(_, _)
InsertSorted(x, s) ==
    IF s = <<>> THEN <<x>>
    ELSE IF x <= Head(s) THEN <<x>> \o s
    ELSE <<Head(s)>> \o InsertSorted(x, Tail(s))

RECURSIVE SortAngles(_)
SortAngles(s) == IF s = <<>> THEN <<>> ELSE InsertSorted(Head(s), SortAngles(Tail(s)))

(* np.median: the middle value, or the mean of the two middle values *)
Median(angles) ==
    LET s == SortAngles(angles)
        n == Len(s)
    IN  IF n % 2 = 1 THEN s[(n + 1) \div 2]
        ELSE (s[n \div 2] + s[n \div 2 + 1]) \div 2

RECURSIVE SumSeq(_)
SumSeq(s) == IF s = <<>> THEN 0 ELSE Head(s) + SumSeq(Tail(s))

(* the largest r in lo..hi with r * r <= n, by bisection *)
RECURSIVE ISqrtIn(_, _, _)
ISqrtIn(lo, hi, n) ==
    IF lo >= hi THEN lo
    ELSE LET mid == (lo + hi + 1) \div 2
         IN  IF mid * mid <= n THEN ISqrtIn(mid, hi, n) ELSE ISqrtIn(lo, mid - 1, n)

ISqrt(n) == ISqrtIn(0, IF n < 46340 THEN n ELSE 46340, n)

(* np.std (population), rounded down to a whole tick *)
StdTicks(angles) ==
    LET n == Len(angles)
        total == SumSeq(angles)
        sq == SumSeq([i \in 1..n |-> (n * angles[i] - total) * (n * angles[i] - total)])
    IN  ISqrt(sq \div (n * n * n))

(* max(0.0, 1.0 - angle_std / 10.0), in thousandths: 10 degrees are 200 ticks *)
SkewConfidence(angles) ==
    LET c == 1000 - 5 * StdTicks(angles)
    IN  IF c < 0 THEN 0 ELSE c

SkewEstimate(a, c) == [angle |-> a, confidence |-> c]

(* a variant without the check of lines 329-330 *)
detect_skew_angle_unchecked(s) ==
    IF s.status = "raised" THEN SkewEstimate(0, 0)
    ELSE IF Len(s.lines) = 0 THEN SkewEstimate(0, 0)
    ELSE LET angles == SegmentAngles(s.lines)
         IN  IF Len(angles) = 0 THEN SkewEstimate(0, 0)
             ELSE SkewEstimate(Median(angles), SkewConfidence(angles))

(* lines 264-336 *)
detect_skew_angle(s) ==
    IF s.status = "raised" THEN SkewEstimate(0, 0)
    ELSE IF Len(s.lines) = 0 THEN SkewEstimate(0, 0)
    ELSE LET angles == SegmentAngles(s.lines)
         IN  IF Len(angles) = 0 THEN SkewEstimate(0, 0)
             ELSE IF Abs(Median(angles)) > max_skew_angle THEN SkewEstimate(0, 0)
             ELSE SkewEstimate(Median(angles), SkewConfidence(angles))

NoAngle == [given |-> FALSE, value |-> 0]
GivenAngle(a) == [given |-> TRUE, value |-> a]

(* lines 349-379.  rotated: the image went through cv2.warpAffine; by: the
   angle handed to cv2.getRotationMatrix2D; applied: the second value
   returned.  warp_raises: cv2.warpAffine raises, which correct_skew does
   not catch. *)
correct_skew(arg, s, warp_raises) ==
    LET angle == IF arg.given THEN arg.value ELSE detect_skew_angle(s).angle
    IN  IF Abs(angle) < min_skew_threshold
        THEN [rotated |-> FALSE, by |-> 0, applied |-> 0]
        ELSE IF warp_raises THEN Exc
        ELSE [rotated |-> TRUE, by |-> 0 - angle, applied |-> angle]

----------------------------------------------------------------------------
(* HardenedStraightener.straighten_image *)

InputKinds == {"path", "pil", "array", "bad_path", "unsupported"}
Decodable(kind) == kind \in {"path", "pil", "array"}

(* lines 428-434: cv2.rotate on the orientation of the content *)
Rotate(o, angle) ==
    IF angle = 90 THEN (o + 3) % 4
    ELSE IF angle = 180 THEN (o + 2) % 4
    ELSE IF angle = 270 THEN (o + 1) % 4
    ELSE o

(* What an accurate engine reports for content turned o quarter turns
   clockwise.  The CNN label is the counter-clockwise rotation that makes
   the page upright; Tesseract's Rotate is the clockwise rotation that makes
   the page upright. *)
CnnLabelFor(o) == 90 * o
OsdRotateFor(o) == 90 * ((4 - o) % 4)

NoResult == [none |-> TRUE]
NoEstimate == [none |-> TRUE]

(* a variant without the try/except of lines 397, 461-467: the exception
   leaves straighten_image *)
FailureUncaught(msg) == Exc

(* lines 461-467 *)
Failure(msg) == [success |-> FALSE, error |-> msg, processing_time |-> "elapsed"]

(* lines 445-459 *)
Success(o, e, sk) ==
    [success |-> TRUE,
     image |-> [orient |-> o, skew_rotation |-> sk.by],
     processing_time |-> "elapsed",
     orientation |-> [angle_applied |-> e.angle,
                      confidence |-> e.confidence,
                      method |-> e.method,
                      fallback_used |-> e.fallback_used],
     skew_correction |-> [angle_applied |-> sk.applied,
                          applied |-> Abs(sk.applied) > min_skew_threshold]]

(* lines 398-422: the input is read and decoded into cv_img, after which
   image_input is not read again, or the call fails *)
straighten_start(kind, o) ==
    /\ pc = "idle"
    /\ IF Decodable(kind)
       THEN /\ input' = "decoded"
            /\ orient' = o
            /\ pc' = "cnn"
            /\ result' = NoResult
       ELSE /\ input' = kind
            /\ orient' = 0
            /\ pc' = "done"
            /\ result' = Failure(IF kind = "unsupported"
                                 THEN "Unsupported input type" ELSE "cannot identify image file")
    /\ UNCHANGED <<cnn, osd, geo, est, skewin, skewest, loadvars, skewvars, cropvars, geovars, optvars, apivars>>

(* lines 56-79: the CNN stage of detect_orientation *)
cnn_stage(c) ==
    /\ pc = "cnn"
    /\ cnn' = c
    /\ IF NeedOsd(c)
       THEN pc' = "osd" /\ est' = est
       ELSE pc' = "oriented" /\ est' = detect_orientation(c, osd, geo)
    /\ UNCHANGED <<input, orient, osd, geo, skewin, skewest, result, loadvars, skewvars, cropvars, geovars, optvars, apivars>>

(* lines 100-117: the OSD stage *)
osd_stage(o) ==
    /\ pc = "osd"
    /\ osd' = o
    /\ IF NeedGeometry(o)
       THEN pc' = "geometry" /\ est' = est
       ELSE pc' = "oriented" /\ est' = detect_orientation(cnn, o, geo)
    /\ UNCHANGED <<input, orient, cnn, geo, skewin, skewest, result, loadvars, skewvars, cropvars, geovars, optvars, apivars>>

(* lines 162-245: the geometry stage, and the returns through its callers *)
geometry_stage(g) ==
    /\ pc = "geometry"
    /\ geo' = g
    /\ pc' = "oriented"
    /\ est' = detect_orientation(cnn, osd, g)
    /\ UNCHANGED <<input, orient, cnn, osd, skewin, skewest, result, loadvars, skewvars, cropvars, geovars, optvars, apivars>>

(* lines 425-435: the coarse rotation; the locals of detect_orientation
   are gone *)
apply_rotation ==
    /\ pc = "oriented"
    /\ IF IsExc(est)
       THEN /\ pc' = "done"
            /\ result' = Failure("orientation")
            /\ orient' = orient
       ELSE /\ pc' = "skew"
            /\ result' = result
            /\ orient' = Rotate(orient, est.angle)
    /\ cnn' = NoStage /\ osd' = NoStage /\ geo' = NoStage
    /\ UNCHANGED <<input, est, skewin, skewest, loadvars, skewvars, cropvars, geovars, optvars, apivars>>

(* lines 438-467: correct_skew and the result *)
skew_stage(s, warp_raises) ==
    /\ pc = "skew"
    /\ skewin' = s
    /\ skewest' = detect_skew_angle(s)
    /\ pc' = "done"
    /\ LET sk == correct_skew(NoAngle, s, warp_raises)
       IN  result' = IF IsExc(sk) THEN Failure("warpAffine")
                     ELSE Success(orient, est, sk)
    /\ UNCHANGED <<input, orient, cnn, osd, geo, est, loadvars, skewvars, cropvars, geovars, optvars, apivars>>

(* the call has returned; the next one starts from scratch *)
next_call ==
    /\ pc = "done"
    /\ pc' = "idle"
    /\ input' = "none" /\ orient' = 0
    /\ est' = NoEstimate /\ skewin' = NoSkewInput /\ result' = NoResult
    /\ skewest' = SkewEstimate(0, 0)
    /\ UNCHANGED <<cnn, osd, geo, loadvars, skewvars, cropvars, geovars, optvars, apivars>>

----------------------------------------------------------------------------
(* _get_orientation_model and the first lines of detect_orientation, one
   thread per pipeline invocation, all on the shared detector of the global
   hardened_straightener.  Each action is one read or one write of shared
   state; the constructor runs between two of them. *)

Threads == 1..NumThreads

(* line 56: if self.model is None *)
t_enter(t) ==
    /\ tpc[t] = "idle"
    /\ tpc' = [tpc EXCEPT ![t] = IF self_model = 0 THEN "get" ELSE "use"]
    /\ UNCHANGED <<orientation_model, self_model, tlocal, loads, pipevars, skewvars, cropvars, geovars, optvars, apivars>>

(* line 26: if _orientation_model is None *)
t_check(t) ==
    /\ tpc[t] = "get"
    /\ tpc' = [tpc EXCEPT ![t] = IF orientation_model = 0 THEN "ctor" ELSE "ret"]
    /\ UNCHANGED <<orientation_model, self_model, tlocal, loads, pipevars, skewvars, cropvars, geovars, optvars, apivars>>

(* lines 28-30: the import and the constructor return an instance or raise *)
t_construct(t, ok) ==
    /\ tpc[t] = "ctor"
    /\ ok => loads < MaxLoads
    /\ IF ok
       THEN /\ loads' = loads + 1
            /\ tlocal' = [tlocal EXCEPT ![t] = loads + 1]
            /\ tpc' = [tpc EXCEPT ![t] = "assign"]
       ELSE /\ loads' = loads
            /\ tlocal' = tlocal
            /\ tpc' = [tpc EXCEPT ![t] = "except"]
    /\ UNCHANGED <<orientation_model, self_model, pipevars, skewvars, cropvars, geovars, optvars, apivars>>

(* line 30: the store to the global *)
t_assign(t) ==
    /\ tpc[t] = "assign"
    /\ orientation_model' = tlocal[t]
    /\ tpc' = [tpc EXCEPT ![t] = "ret"]
    /\ UNCHANGED <<self_model, tlocal, loads, pipevars, skewvars, cropvars, geovars, optvars, apivars>>

(* line 34: _orientation_model = None *)
t_except(t) ==
    /\ tpc[t] = "except"
    /\ orientation_model' = 0
    /\ tpc' = [tpc EXCEPT ![t] = "ret"]
    /\ UNCHANGED <<self_model, tlocal, loads, pipevars, skewvars, cropvars, geovars, optvars, apivars>>

(* line 35: return _orientation_model *)
t_return(t) ==
    /\ tpc[t] = "ret"
    /\ tlocal' = [tlocal EXCEPT ![t] = orientation_model]
    /\ tpc' = [tpc EXCEPT ![t] = "store"]
    /\ UNCHANGED <<orientation_model, self_model, loads, pipevars, skewvars, cropvars, geovars, optvars, apivars>>

(* line 58: self.model = ... *)
t_store(t) ==
    /\ tpc[t] = "store"
    /\ self_model' = tlocal[t]
    /\ tpc' = [tpc EXCEPT ![t] = "use"]
    /\ UNCHANGED <<orientation_model, tlocal, loads, pipevars, skewvars, cropvars, geovars, optvars, apivars>>

(* lines 59-96: the rest of the call, which leaves the model variables alone *)
t_use(t) ==
    /\ tpc[t] = "use"
    /\ tlocal' = [tlocal EXCEPT ![t] = 0]
    /\ tpc' = [tpc EXCEPT ![t] = "idle"]
    /\ UNCHANGED <<orientation_model, self_model, loads, pipevars, skewvars, cropvars, geovars, optvars, apivars>>

LoadInit ==
    /\ orientation_model = 0
    /\ self_model = 0
    /\ tpc = [t \in 1..NumThreads |-> "idle"]
    /\ tlocal = [t \in 1..NumThreads |-> 0]
    /\ loads = 0

PipeInit ==
    /\ pc = "idle"
    /\ input = "none"
    /\ orient = 0
    /\ cnn = NoStage /\ osd = NoStage /\ geo = NoStage
    /\ est = NoEstimate
    /\ skewin = NoSkewInput
    /\ skewest = SkewEstimate(0, 0)
    /\ result = NoResult


----------------------------------------------------------------------------
(* HardenedSkewCorrector.correct_skew called on its own, with or without an
   angle, and called again without one on the image it returned.  The image
   is what line detection finds in it: the raw angles of its segments. *)

Deg180 == 3600

(* the angles a caller passes, in ticks: 0, 0.2, 0.3, 0.4, 5, 5.1 and 20
   degrees, and the negative of two of them *)
ArgAngles == {0, 4, 6, 0 - 6, 8, 100, 102, 400, 0 - 400}
SkewArgs == {NoAngle} \cup {GivenAngle(a) : a \in ArgAngles}

(* np.arctan2 answers in (-180, 180] *)
WrapAngle(a) ==
    IF a > Deg180 THEN a - 2 * Deg180
    ELSE IF a <= 0 - Deg180 THEN a + 2 * Deg180
    ELSE a

(* lines 360-376: cv2.warpAffine with the matrix of
   cv2.getRotationMatrix2D(center, by, 1.0) maps the direction (dx, dy) to
   (cos(by) dx + sin(by) dy, -sin(by) dx + cos(by) dy), so a segment whose
   np.arctan2(dy, dx) was a lies at a - by afterwards *)
RotateLines(s, by) ==
    [s EXCEPT !.lines = [i \in 1..Len(s.lines) |-> WrapAngle(s.lines[i] - by)]]

NoCalls == <<>>

(* line 349-350: the angle the call works with *)
AngleOf(arg, s) == IF arg.given THEN arg.value ELSE detect_skew_angle(s).angle

(* the image a call of correct_skew returns *)
ImageAfter(s, out) ==
    IF IsExc(out) \/ ~out.rotated THEN s ELSE RotateLines(s, out.by)

(* lines 338-379: the first call *)
skew_first(arg, s, warp_raises) ==
    /\ sk_pc = "idle"
    /\ LET out == correct_skew(arg, s, warp_raises)
       IN  /\ sk_out' = <<out>>
           /\ sk_img' = ImageAfter(s, out)
    /\ sk_in' = s
    /\ sk_arg' = arg
    /\ sk_angle' = <<AngleOf(arg, s)>>
    /\ sk_pc' = "once"
    /\ UNCHANGED <<pipevars, loadvars, cropvars, geovars, optvars, apivars>>

(* lines 338-379: correct_skew(corrected) on the image the first call
   returned *)
skew_second(warp_raises) ==
    /\ sk_pc = "once"
    /\ ~IsExc(sk_out[1])
    /\ LET out == correct_skew(NoAngle, sk_img, warp_raises)
       IN  /\ sk_out' = Append(sk_out, out)
           /\ sk_img' = ImageAfter(sk_img, out)
    /\ sk_angle' = Append(sk_angle, AngleOf(NoAngle, sk_img))
    /\ sk_pc' = "twice"
    /\ UNCHANGED <<sk_in, sk_arg, pipevars, loadvars, cropvars, geovars, optvars, apivars>>

(* the caller drops the images *)
skew_reset ==
    /\ sk_pc \in {"once", "twice"}
    /\ sk_pc' = "idle"
    /\ sk_in' = NoSkewInput /\ sk_img' = NoSkewInput
    /\ sk_arg' = NoAngle
    /\ sk_angle' = NoCalls /\ sk_out' = NoCalls
    /\ UNCHANGED <<pipevars, loadvars, cropvars, geovars, optvars, apivars>>

SkewInit ==
    /\ sk_pc = "idle"
    /\ sk_in = NoSkewInput /\ sk_img = NoSkewInput
    /\ sk_arg = NoAngle
    /\ sk_angle = NoCalls /\ sk_out = NoCalls

NextSkew ==
    \/ \E arg \in SkewArgs, s \in SkewInputs, w \in BOOLEAN : skew_first(arg, s, w)
    \/ \E w \in BOOLEAN : skew_second(w)
    \/ skew_reset

----------------------------------------------------------------------------
(* cropper.warp_card.  A contour is what the loop of lines 42-52 reads of
   it: area is cv2.contourArea(c), pts is len(approx) and qarea is
   cv2.contourArea(approx), in units of which the image has ImgArea.  The
   files are named for an input whose basename is "name". *)

MaxContours == 6    \* contours cv2.findContours returns for one strategy

TopContours == 5
AreaDen == 10
min_intensity == 10
max_intensity == 245
deskew_threshold == 20
ImgArea == 100

Strategies == <<"standard", "sensitive", "aggressive">>

(* a large contour that is no quadrilateral, a quadrilateral of half the
   image, and a quadrilateral of less than a tenth of it *)
ContourKinds ==
    {[area |-> 60, pts |-> 6, qarea |-> 58],
     [area |-> 50, pts |-> 4, qarea |-> 50],
     [area |-> 9, pts |-> 4, qarea |-> 8]}
FoundLists == SeqsUpTo(ContourKinds, MaxContours)

ReadKinds == {"image", "undecodable", "missing"}
Means == {0, 9, 10, 128, 245, 246}
EastAngles == {0, 20, 22, 0 - 60}
Faults == {"none", "getPerspectiveTransform", "warpPerspective", "warpAffine", "imwrite"}

NoQuad == [none |-> TRUE]
NoOutcome == [none |-> TRUE]
NoMean == 0 - 1
ManualName == "manual_review_name"
CropName == "crop_name"

(* sorted(contours, key=cv2.contourArea, reverse=True): stable, largest
   first *)
RECURSIVE InsertByArea(_, _)
InsertByArea(c, s) ==
    IF s = <<>> THEN <<c>>
    ELSE IF c.area >= Head(s).area THEN <<c>> \o s
    ELSE <<Head(s)>> \o InsertByArea(c, Tail(s))

RECURSIVE SortByArea(_)
SortByArea(s) == IF s = <<>> THEN <<>> ELSE InsertByArea(Head(s), SortByArea(Tail(s)))

(* a variant without the sort of line 40 *)
UnsortedTop(found) == Take(found, TopContours)

(* line 40 *)
SortedTop(found) == Take(SortByArea(found), TopContours)

(* a variant without the area test of line 49 *)
AcceptableAnyArea(c) == c.pts = 4

(* lines 45-49: area > img_area * 0.1 *)
Acceptable(c) == c.pts = 4 /\ c.qarea * AreaDen > ImgArea

(* lines 42-52: the index of the contour the loop breaks at, 0 if it runs
   to its end *)
RECURSIVE FirstAcceptableFrom(_, _)
FirstAcceptableFrom(cs, i) ==
    IF i > Len(cs) THEN 0
    ELSE IF Acceptable(cs[i]) THEN i
    ELSE FirstAcceptableFrom(cs, i + 1)

FirstAcceptable(cs) == FirstAcceptableFrom(cs, 1)

(* a variant without the test of lines 57-58 *)
StepAfterUnchecked(idx, k) ==
    IF idx # 0 THEN "order"
    ELSE IF k < Len(Strategies) THEN "detect"
    ELSE "order"

(* lines 54-58: where warp_card goes after the inner loop of strategy k *)
StepAfter(idx, k) ==
    IF idx # 0 THEN "order"
    ELSE IF k < Len(Strategies) THEN "detect"
    ELSE "done"

(* a variant of _create_manual_review_copy without lines 14-15 *)
create_manual_review_copy_unlogged(reason) ==
    [exception |-> FALSE, returned |-> ManualName, files |-> {ManualName}, log |-> <<>>]

(* lines 5-17: the copy, the log line and the returned path *)
create_manual_review_copy(reason) ==
    [exception |-> FALSE,
     returned |-> ManualName,
     files |-> {ManualName},
     log |-> <<[file |-> ManualName, reason |-> reason]>>]

(* lines 90-93 *)
write_crop ==
    [exception |-> FALSE, returned |-> CropName, files |-> {CropName}, log |-> <<>>]

(* an exception leaves warp_card: nothing is returned *)
Propagated ==
    [exception |-> TRUE, returned |-> "none", files |-> {}, log |-> <<>>]

out_w == 856
out_h == 540
NoSize == <<0, 0>>

NoWarp == [warped |-> FALSE, error |-> "none", mean |-> NoMean, deskew |-> 0,
           size |-> NoSize]

(* line 73: the dsize of cv2.warpPerspective *)
WarpSize == <<out_w, out_h>>

(* a variant that grows the canvas of a rotated image, as lines 362-366 of
   correct_skew do *)
DeskewSizeExpanded(size, deskew) ==
    IF deskew # 0 THEN <<size[1] + 1, size[2] + 1>> ELSE size

(* lines 83-88: the dsize of cv2.warpAffine, when the refinement rotates *)
DeskewSize(size, deskew) ==
    IF deskew # 0 THEN <<out_w, out_h>> ELSE size

NoPoints == [quad |-> <<>>, src |-> <<>>]

(* the vertices approx.reshape(4, 2) of a quadrilateral of half the image,
   which is 10 by 10: a rectangle listed from its top-left corner, the same
   rectangle listed from another corner in the other direction, a
   parallelogram and a diamond *)
QuadShapes ==
    {<< <<0, 0>>, <<10, 0>>, <<10, 5>>, <<0, 5>> >>,
     << <<10, 5>>, <<10, 0>>, <<0, 0>>, <<0, 5>> >>,
     << <<0, 0>>, <<10, 2>>, <<10, 7>>, <<0, 5>> >>,
     << <<5, 0>>, <<10, 5>>, <<5, 10>>, <<0, 5>> >>}

(* np.argmin and np.argmax: the first index of the extreme value *)
ArgMin(f) ==
    CHOOSE i \in DOMAIN f :
        /\ \A j \in DOMAIN f : f[i] <= f[j]
        /\ \A j \in DOMAIN f : j < i => f[j] # f[i]
ArgMax(f) ==
    CHOOSE i \in DOMAIN f :
        /\ \A j \in DOMAIN f : f[i] >= f[j]
        /\ \A j \in DOMAIN f : j < i => f[j] # f[i]

(* lines 63-67: pts_src = [tl, tr, br, bl] *)
order_corners(quad) ==
    LET s == [i \in DOMAIN quad |-> quad[i][1] + quad[i][2]]
        diff == [i \in DOMAIN quad |-> quad[i][2] - quad[i][1]]
    IN  <<quad[ArgMin(s)], quad[ArgMin(diff)], quad[ArgMax(s)], quad[ArgMax(diff)]>>

(* a variant of line 78 that rejects the two boundary values *)
IntensityExtremeInclusive(mean) == mean <= min_intensity \/ mean >= max_intensity

(* line 78 *)
IntensityExtreme(mean) == mean < min_intensity \/ mean > max_intensity

(* lines 82-88: the angle the refinement rotates by *)
Deskew(skew) == IF Abs(skew) > deskew_threshold THEN skew ELSE 0

(* lines 72-93, the body of the try: error is the cv2 call that raised
   cv2.error, "none" if the body returned with effect *)
warp_body(fault, mean, skew) ==
    IF fault \in {"getPerspectiveTransform", "warpPerspective"}
    THEN [error |-> fault, effect |-> NoOutcome, mean |-> NoMean, deskew |-> 0,
          size |-> NoSize]
    ELSE IF IntensityExtreme(mean)
    THEN [error |-> "none",
          effect |-> create_manual_review_copy("Warped image has extreme intensity values"),
          mean |-> mean, deskew |-> 0, size |-> NoSize]
    ELSE IF fault = "warpAffine" /\ Deskew(skew) # 0
    THEN [error |-> fault, effect |-> NoOutcome, mean |-> mean, deskew |-> 0,
          size |-> NoSize]
    ELSE IF fault = "imwrite"
    THEN [error |-> fault, effect |-> NoOutcome, mean |-> mean, deskew |-> Deskew(skew),
          size |-> NoSize]
    ELSE [error |-> "none", effect |-> write_crop, mean |-> mean, deskew |-> Deskew(skew),
          size |-> DeskewSize(WarpSize, Deskew(skew))]

(* a variant without the handler of lines 95-96 *)
warp_try_uncaught(fault, mean, skew) ==
    LET b == warp_body(fault, mean, skew)
    IN  IF b.error # "none" THEN [b EXCEPT !.effect = Propagated] ELSE b

(* lines 71-96 *)
warp_try(fault, mean, skew) ==
    LET b == warp_body(fault, mean, skew)
    IN  IF b.error # "none"
        THEN [b EXCEPT !.effect = create_manual_review_copy("Perspective transform failed")]
        ELSE b

(* lines 20-22: cv2.imread; a file that is missing cannot be copied either,
   and shutil.copy2 raises *)
crop_read(kind) ==
    /\ c_pc = "idle"
    /\ IF kind = "image"
       THEN /\ c_pc' = "detect"
            /\ c_k' = 1
            /\ c_out' = NoOutcome
       ELSE /\ c_pc' = "done"
            /\ c_k' = 0
            /\ c_out' = (IF kind = "missing" THEN Propagated
                         ELSE create_manual_review_copy("Could not read image file"))
                        @@ NoWarp
    /\ UNCHANGED <<c_found, c_contours, c_examined, c_hist, c_quad, c_used, c_pts,
                   pipevars, loadvars, skewvars, geovars, optvars, apivars>>

(* lines 36-58: one iteration of the strategy loop, and the return of line
   58 after the last one *)
crop_strategy(found) ==
    /\ c_pc = "detect"
    /\ c_found' = found
    /\ LET contours == SortedTop(found)
           idx == FirstAcceptable(contours)
       IN  /\ c_contours' = contours
           /\ c_examined' = IF idx = 0 THEN Len(contours) ELSE idx
           /\ c_hist' = Append(c_hist, idx # 0)
           /\ c_quad' = IF idx = 0 THEN NoQuad ELSE contours[idx]
           /\ c_used' = IF idx = 0 THEN c_used ELSE Strategies[c_k]
           /\ c_pc' = StepAfter(idx, c_k)
           /\ c_k' = IF StepAfter(idx, c_k) = "detect" THEN c_k + 1 ELSE c_k
           /\ c_out' = IF StepAfter(idx, c_k) = "done"
                       THEN create_manual_review_copy("No 4-point contour found with any strategy")
                            @@ NoWarp
                       ELSE c_out
    /\ UNCHANGED <<c_pts, pipevars, loadvars, skewvars, geovars, optvars, apivars>>

(* lines 60-68: the corners of quad are put in order; the contours of the
   detection are not read again *)
crop_order(quad) ==
    /\ c_pc = "order"
    /\ c_pc' = "warp"
    /\ c_pts' = [quad |-> quad, src |-> order_corners(quad)]
    /\ c_found' = <<>> /\ c_contours' = <<>> /\ c_examined' = 0
    /\ UNCHANGED <<c_k, c_hist, c_quad, c_used, c_out, pipevars, loadvars, skewvars, geovars, optvars, apivars>>

(* lines 71-96: the warp stage *)
crop_warp(fault, mean, skew) ==
    /\ c_pc = "warp"
    /\ c_pc' = "done"
    /\ LET t == warp_try(fault, mean, skew)
       IN  c_out' = t.effect @@ [warped |-> TRUE, error |-> t.error,
                                 mean |-> t.mean, deskew |-> t.deskew,
                                 size |-> t.size]
    /\ UNCHANGED <<c_k, c_found, c_contours, c_examined, c_hist, c_quad, c_used, c_pts,
                   pipevars, loadvars, skewvars, geovars, optvars, apivars>>

(* the call has ended; the next one starts from scratch *)
crop_next ==
    /\ c_pc = "done"
    /\ c_pc' = "idle"
    /\ c_k' = 0
    /\ c_found' = <<>> /\ c_contours' = <<>> /\ c_examined' = 0 /\ c_hist' = <<>>
    /\ c_quad' = NoQuad
    /\ c_used' = "none"
    /\ c_out' = NoOutcome
    /\ c_pts' = NoPoints
    /\ UNCHANGED <<pipevars, loadvars, skewvars, geovars, optvars, apivars>>

CropInit ==
    /\ c_pc = "idle"
    /\ c_k = 0
    /\ c_found = <<>> /\ c_contours = <<>> /\ c_examined = 0 /\ c_hist = <<>>
    /\ c_quad = NoQuad
    /\ c_used = "none"
    /\ c_out = NoOutcome
    /\ c_pts = NoPoints

NextCrop ==
    \/ \E kind \in ReadKinds : crop_read(kind)
    \/ \E found \in FoundLists : crop_strategy(found)
    \/ \E quad \in QuadShapes : crop_order(quad)
    \/ \E fault \in Faults, mean \in Means, skew \in EastAngles : crop_warp(fault, mean, skew)
    \/ crop_next

----------------------------------------------------------------------------
(* HardenedOrientationDetector._geometry_fallback called on its own, on line
   lists long enough for the cut of line 178.  A list is a run of n equal
   lines followed by a run of m equal lines, or one line of any whole
   degree. *)

MaxRun == 21        \* lines of one run

(* theta of cv2.HoughLines with the resolution np.pi/180 of line 173: whole
   degrees in [0, 180) *)
HoughThetas == 0..179
RunThetas == {0, 45, 46, 135, 136}

RunLines(t1, n, t2, m) == [i \in 1..(n + m) |-> IF i <= n THEN t1 ELSE t2]
OneLine(t) == Stage("ok", 0, Conf(0, 1), <<t>>)

GeoCalls ==
    {Stage("raised", 0, Conf(0, 1), <<>>)}
    \cup {OneLine(t) : t \in HoughThetas}
    \cup {Stage("ok", 0, Conf(0, 1), RunLines(t1, n, t2, m)) :
              t1 \in RunThetas, n \in 0..MaxRun, t2 \in RunThetas, m \in 0..MaxRun}

(* lines 160-245 *)
geo_call(g) ==
    /\ g_in = NoStage
    /\ g_in' = g
    /\ g_out' = geometry_fallback(g)
    /\ UNCHANGED <<pipevars, loadvars, skewvars, cropvars, optvars, apivars>>

(* the caller has taken the result *)
geo_return ==
    /\ g_in # NoStage
    /\ g_in' = NoStage
    /\ g_out' = NoEstimate
    /\ UNCHANGED <<pipevars, loadvars, skewvars, cropvars, optvars, apivars>>

GeoInit == g_in = NoStage /\ g_out = NoEstimate

NextGeo ==
    \/ \E g \in GeoCalls : geo_call(g)
    \/ geo_return


----------------------------------------------------------------------------
(* optimized_straightener.complete_straightening: detect_best_rotation,
   the rest of auto_rotate_optimized, then the skew correction.  Angles of
   the sweep are in ticks of 0.05 degree. *)

sweep_start == 0 - 160
sweep_stop == 180
sweep_step == 4

OcrScores == {0, 50, 120}
ScoreTables == [RightAngles -> OcrScores]
OptInputs == {"image", "undecodable"}

(* np.arange(start, stop, step): ceil((stop - start) / step) values *)
Arange(start, stop, step) ==
    [i \in 1..((stop - start + step - 1) \div step) |-> start + (i - 1) * step]

(* line 206 *)
SweepAngles == Arange(sweep_start, sweep_stop, sweep_step)

(* lines 165-175: max over the keys 0, 90, 180, 270 in insertion order, and
   the gap between the two best scores *)
BestKey(scores) ==
    CHOOSE b \in RightAngles :
        /\ \A o \in RightAngles : scores[o] <= scores[b]
        /\ \A o \in RightAngles : scores[o] = scores[b] => b <= o
SecondScore(scores) ==
    CHOOSE v \in OcrScores :
        /\ \E o \in RightAngles \ {BestKey(scores)} : scores[o] = v
        /\ \A o \in RightAngles \ {BestKey(scores)} : scores[o] <= v

(* lines 135-182 *)
detect_best_rotation(kind, scores) ==
    IF kind # "image"
    THEN [angle |-> 0, confidence |-> 0, method |-> "error"]
    ELSE [best_angle |-> BestKey(scores),
          confidence |-> scores[BestKey(scores)] - SecondScore(scores),
          all_results |-> scores,
          method |-> "optimized_ocr"]

OptRaised == [exception |-> TRUE, returned |-> "none"]
OptReturned(path) == [exception |-> FALSE, returned |-> path]

(* lines 305-324: result["best_angle"] raises KeyError when the key is
   missing *)
auto_rotate_optimized(res) ==
    IF "best_angle" \notin DOMAIN res THEN OptRaised
    ELSE IF res.best_angle = 0 THEN OptReturned("name")
    ELSE IF res.best_angle = 90 THEN OptReturned("optimized_rot_90_name")
    ELSE IF res.best_angle = 180 THEN OptReturned("optimized_rot_180_name")
    ELSE OptReturned("optimized_rot_270_name")

(* lines 251-294: the angle OptimizedSkewCorrector.straighten_image returns *)
OptSkewApplied(angle) == IF Abs(angle) < 6 THEN 0 ELSE angle

(* lines 336-351 *)
FinalPath(rotated_path, skew_angle) ==
    IF Abs(skew_angle) > 6 THEN "complete_straight_name" ELSE rotated_path

(* lines 328-332 and 135-182: the call of detect_best_rotation *)
opt_detect(kind, scores) ==
    /\ o_pc = "idle"
    /\ o_pc' = "rotate"
    /\ o_res' = detect_best_rotation(kind, scores)
    /\ UNCHANGED <<o_path, o_skew, o_out, pipevars, loadvars, skewvars, cropvars,
                   geovars, apivars>>

(* lines 306-324: the rest of auto_rotate_optimized; complete_straightening
   has no handler, so an exception ends the call *)
opt_rotate ==
    /\ o_pc = "rotate"
    /\ LET r == auto_rotate_optimized(o_res)
       IN  IF r.exception
           THEN /\ o_pc' = "done"
                /\ o_out' = r
                /\ o_path' = o_path
                /\ o_res' = o_res
           ELSE /\ o_pc' = "skew"
                /\ o_out' = o_out
                /\ o_path' = r.returned
                /\ o_res' = NoResult
    /\ UNCHANGED <<o_skew, pipevars, loadvars, skewvars, cropvars, geovars, apivars>>

(* lines 335-351 and 190-232: best_idx is np.argmax(variances) *)
opt_skew(best_idx) ==
    /\ o_pc = "skew"
    /\ o_pc' = "done"
    /\ o_skew' = SweepAngles[best_idx]
    /\ o_out' = OptReturned(FinalPath(o_path, OptSkewApplied(SweepAngles[best_idx])))
    /\ UNCHANGED <<o_res, o_path, pipevars, loadvars, skewvars, cropvars, geovars, apivars>>

(* the call has ended; the next one starts from scratch *)
opt_next ==
    /\ o_pc = "done"
    /\ o_pc' = "idle"
    /\ o_res' = NoResult /\ o_path' = "none" /\ o_skew' = 0 /\ o_out' = NoResult
    /\ UNCHANGED <<pipevars, loadvars, skewvars, cropvars, geovars, apivars>>

OptInit == o_pc = "idle" /\ o_res = NoResult /\ o_path = "none" /\ o_skew = 0 /\ o_out = NoResult

NextOpt ==
    \/ \E kind \in OptInputs, scores \in ScoreTables : opt_detect(kind, scores)
    \/ opt_rotate
    \/ \E best_idx \in DOMAIN SweepAngles : opt_skew(best_idx)
    \/ opt_next


----------------------------------------------------------------------------
(* api_service: the request counters of the /straighten and
   /remove-background handlers.  The handlers are coroutines of one event
   loop: a handler runs without interleaving up to its await file.read()
   and again from there to its end. *)

MaxConns == 2
MaxRequests == 3

Conns == 1..MaxConns
Endpoints == {"straighten", "remove-background"}
Uploads == {"ok", "too_large", "bad_extension"}
Formats == {"file", "base64", "other"}
Contents == {"image", "empty", "undecodable"}

NoRequest == [pc |-> "none", endpoint |-> "none", format |-> "none",
              counted_successful |-> 0, counted_failed |-> 0, response |-> 0]

(* lines 82-98: the status validate_image_file raises, 0 when it returns *)
validate_image_file(upload) ==
    IF upload = "too_large" THEN 413
    ELSE IF upload = "bad_extension" THEN 400
    ELSE 0

(* lines 114-147: the status process_image_pipeline raises, 0 when it
   returns its result *)
process_image_pipeline(straightened) == IF straightened THEN 0 ELSE 500

(* the counters a handler has changed and the status it answers with *)
Counts(s, f, code) == [successful |-> s, failed |-> f, response |-> code]

(* lines 246-314: successful_requests is incremented at line 250, before
   return_format is looked at; the HTTPException of line 295 reaches the
   handler of line 305 *)
straighten_rest(format, straightened) ==
    IF process_image_pipeline(straightened) # 0
    THEN Counts(0, 1, process_image_pipeline(straightened))
    ELSE IF format \in {"base64", "file"} THEN Counts(1, 0, 200)
    ELSE Counts(1, 1, 400)

(* lines 341-407: every return_format but "base64" answers with the file *)
remove_background_rest(content, removed) ==
    IF content # "image" THEN Counts(0, 1, 400)
    ELSE IF ~removed THEN Counts(0, 1, 500)
    ELSE Counts(1, 0, 200)

(* lines 232-241 and 333-340: count the request, validate the upload, and
   wait for the file's bytes *)
api_begin(c, endpoint, upload, format) ==
    /\ a_req[c].pc = "none"
    /\ a_total < MaxRequests
    /\ a_total' = a_total + 1
    /\ a_succ' = a_succ
    /\ LET code == validate_image_file(upload)
       IN  IF code # 0
           THEN /\ a_fail' = a_fail + 1
                /\ a_req' = [a_req EXCEPT ![c] =
                       [pc |-> "done", endpoint |-> endpoint, format |-> format,
                        counted_successful |-> 0, counted_failed |-> 1,
                        response |-> code]]
           ELSE /\ a_fail' = a_fail
                /\ a_req' = [a_req EXCEPT ![c] =
                       [pc |-> "reading", endpoint |-> endpoint, format |-> format,
                        counted_successful |-> 0, counted_failed |-> 0,
                        response |-> 0]]
    /\ UNCHANGED <<pipevars, loadvars, skewvars, cropvars, geovars, optvars>>

(* lines 241-314 and 340-407: the handler from its await to its end *)
api_finish(c, content, worked) ==
    /\ a_req[c].pc = "reading"
    /\ LET r == IF a_req[c].endpoint = "straighten"
                THEN straighten_rest(a_req[c].format, content = "image" /\ worked)
                ELSE remove_background_rest(content, worked)
       IN  /\ a_succ' = a_succ + r.successful
           /\ a_fail' = a_fail + r.failed
           /\ a_req' = [a_req EXCEPT ![c] =
                  [pc |-> "done", endpoint |-> a_req[c].endpoint,
                   format |-> a_req[c].format,
                   counted_successful |-> r.successful,
                   counted_failed |-> r.failed,
                   response |-> r.response]]
    /\ UNCHANGED <<a_total, pipevars, loadvars, skewvars, cropvars, geovars, optvars>>

(* the response has been sent and the connection takes the next request *)
api_close(c) ==
    /\ a_req[c].pc = "done"
    /\ a_req' = [a_req EXCEPT ![c] = NoRequest]
    /\ UNCHANGED <<a_total, a_succ, a_fail, pipevars, loadvars, skewvars, cropvars,
                   geovars, optvars>>

(* line 80: stats = ProcessingStats() *)
ApiInit == a_total = 0 /\ a_succ = 0 /\ a_fail = 0 /\ a_req = [c \in Conns |-> NoRequest]

NextApi ==
    \/ \E c \in Conns, endpoint \in Endpoints, upload \in Uploads, format \in Formats :
          api_begin(c, endpoint, upload, format)
    \/ \E c \in Conns, content \in Contents, worked \in BOOLEAN :
          api_finish(c, content, worked)
    \/ \E c \in Conns : api_close(c)


----------------------------------------------------------------------------
(* The specifications *)

Init == PipeInit /\ LoadInit /\ SkewInit /\ CropInit /\ GeoInit /\ OptInit /\ ApiInit

Next ==
    \/ \E kind \in InputKinds, o \in 0..3 : straighten_start(kind, o)
    \/ \E c \in CnnOutcomes : cnn_stage(c)
    \/ \E o \in OsdOutcomes : osd_stage(o)
    \/ \E g \in GeoOutcomes : geometry_stage(g)
    \/ apply_rotation
    \/ \E s \in SkewInputs, w \in BOOLEAN : skew_stage(s, w)
    \/ next_call

Spec == Init /\ [][Next]_vars

NextLoad ==
    \E t \in Threads :
        \/ t_enter(t)
        \/ t_check(t)
        \/ \E ok \in BOOLEAN : t_construct(t, ok)
        \/ t_assign(t)
        \/ t_except(t)
        \/ t_return(t)
        \/ t_store(t)
        \/ t_use(t)

SpecLoad == Init /\ [][NextLoad]_vars

SpecSkew == Init /\ [][NextSkew]_vars

SpecCrop == Init /\ [][NextCrop]_vars

SpecGeo == Init /\ [][NextGeo]_vars

SpecOpt == Init /\ [][NextOpt]_vars

SpecApi == Init /\ [][NextApi]_vars

----------------------------------------------------------------------------
(* Properties of the orientation cascade.  In a state with pc = "oriented"
   detect_orientation has just returned est, and cnn, osd and geo hold what
   each stage did in that call ("none": the stage was not invoked). *)

Returned == pc = "oriented"
EstimateKeys == {"angle", "confidence", "method", "fallback_used"}
OsdRan == osd.status # "none"
GeoRan == geo.status # "none"
CnnFailed == cnn.status \in {"unavailable", "raised"}
Zero == Conf(0, 1)
One == Conf(1, 1)

(* C1: detect_orientation never raises to its caller: whatever each of the
   three stages does (an estimate, an exception, the model unavailable), the
   call returns a dict with exactly angle, confidence, method and
   fallback_used. *)
C1_NeverRaises ==
    Returned => ~IsExc(est) /\ DOMAIN est = EstimateKeys

C1_Witness ==
    /\ Returned
    /\ cnn.status = "raised" /\ osd.status = "raised" /\ geo.status = "raised"
    /\ DOMAIN est = EstimateKeys

(* C2: the OSD stage is invoked exactly when the CNN stage was unavailable,
   raised or returned a confidence below 0.6; the geometry stage is invoked
   exactly when the OSD stage was invoked and raised or returned a confidence
   below 0.5; a CNN confidence of at least 0.6 is returned as it is, with
   method paddleocr and fallback_used false, and no later stage runs. *)
C2_Escalation ==
    Returned =>
        /\ OsdRan <=> (CnnFailed \/ (cnn.status = "ok" /\ ConfLt(cnn.conf, Conf(6, 10))))
        /\ GeoRan <=> (OsdRan /\ (osd.status = "raised"
                                  \/ ConfLt(Conf(osd.conf.num, 100), Conf(5, 10))))
        /\ (cnn.status = "ok" /\ ConfLe(Conf(6, 10), cnn.conf)) =>
               /\ ~OsdRan /\ ~GeoRan
               /\ est = Estimate(cnn.angle, cnn.conf, "paddleocr", FALSE)

C2_Witness ==
    /\ Returned
    /\ cnn.status = "ok" /\ ConfEq(cnn.conf, Conf(6, 10))
    /\ ~OsdRan /\ ~GeoRan
    /\ est.method = "paddleocr"

(* C3: a later stage's estimate replaces an earlier one only when its
   confidence is strictly higher; when no stage raised, the confidence
   returned is the largest confidence of the stages that ran, and among equal
   confidences the earliest stage (CNN, then OSD, then geometry) is the one
   returned. *)
GeoMethods == {"geometry", "geometry_default", "default"}
GeoConf == geometry_fallback(geo).confidence
OsdConfOf == Conf(osd.conf.num, 100)
AllStagesFail ==
    /\ Returned
    /\ CnnFailed
    /\ osd.status = "raised"
    /\ geo.status = "raised" \/ (geo.status = "ok" /\ geo.lines = <<>>)

(* C4 as stated: when the CNN stage and the OSD stage raise and the geometry
   stage raises or detects no lines, the estimate returned is angle 0 with
   confidence 0.1. *)
C4_AllFailGivesTenth ==
    AllStagesFail => est.angle = 0 /\ ConfEq(est.confidence, Conf(1, 10))

(* C4 amended: when the CNN stage and the OSD stage raise, the estimate
   returned is angle 0 with confidence 0.1 and method default if the geometry
   stage raises, and angle 0 with confidence 0.3 and method geometry_default
   if the geometry stage detects no lines. *)
C4_AllFailDefaults ==
    AllStagesFail =>
        /\ geo.status = "raised" =>
               est = Estimate(0, Conf(1, 10), "default", TRUE)
        /\ geo.status = "ok" =>
               est = Estimate(0, Conf(3, 10), "geometry_default", TRUE)

C4_Witness ==
    /\ AllStagesFail
    /\ cnn.status = "raised"
    /\ geo.status = "ok" /\ geo.lines = <<>>
    /\ est.method = "geometry_default"

(* C5: the confidence of every estimate detect_orientation returns lies in
   [0, 1], for every score of the CNN model and every orientation_conf of
   the OSD engine. *)
C5_ConfidenceInUnitInterval ==
    Returned => ConfLe(Zero, est.confidence) /\ ConfLe(est.confidence, One)

(* C6: in every successful result of straighten_image,
   orientation.angle_applied is one of 0, 90, 180, 270. *)
Succeeded == pc = "done" /\ "success" \in DOMAIN result /\ result.success
C7_RoundTrip ==
    [][(/\ Returned
        /\ \/ est.method = "paddleocr" /\ cnn.angle = CnnLabelFor(orient)
           \/ est.method = "tesseract_osd" /\ osd.angle = OsdRotateFor(orient))
       => orient' = 0]_vars

----------------------------------------------------------------------------
(* Properties of the model variable under concurrent first use *)

(* C8: the shared CNN model is constructed at most once per process: the
   constructor never runs in two threads and never returns a second
   instance. *)
C8_ConstructedOnce ==
    /\ Cardinality({t \in Threads : tpc[t] = "ctor"}) <= 1
    /\ loads <= 1

(* C9: once the process-wide model variable holds a loaded instance it is
   never assigned again, neither to another instance nor back to None. *)
C9_NeverReassigned ==
    [][orientation_model # 0 => orientation_model' = orientation_model]_vars

----------------------------------------------------------------------------
(* Properties of the skew detector.  In a state with skewin.status # "none"
   detect_skew_angle has returned skewest for the segments of skewin. *)

Detected == pc = "done" /\ skewin.status # "none"
NoLineEvidence ==
    \/ skewin.status = "raised"
    \/ \A i \in 1..Len(skewin.lines) : Vertical(skewin.lines[i])

(* C10: detect_skew_angle returns (0.0, 0.0) when there are no segments,
   only vertical segments or an internal exception; every angle it returns
   is at most max_skew_angle (5.0 degrees) in magnitude, a median beyond
   that being replaced by (0.0, 0.0). *)
C10_SkewWithinTrustedRange ==
    Detected =>
        /\ NoLineEvidence => skewest = SkewEstimate(0, 0)
        /\ Abs(skewest.angle) <= 100
        /\ (~NoLineEvidence /\ Abs(Median(SegmentAngles(skewin.lines))) > 100) =>
               skewest = SkewEstimate(0, 0)

C10_Witness ==
    /\ Detected
    /\ skewin.status = "ok"
    /\ Len(skewin.lines) = 2
    /\ ~NoLineEvidence
    /\ Abs(Median(SegmentAngles(skewin.lines))) > 100
    /\ skewest = SkewEstimate(0, 0)

----------------------------------------------------------------------------
(* Properties of correct_skew.  In a state with sk_pc = "once" the first call
   has ended: sk_angle[1] is the angle it worked with, sk_out[1] what it
   returned, sk_in the image it was given and sk_img the image it returned.
   With sk_pc = "twice" the same holds at index 2 for the call on the
   returned image. *)

FirstReturned == sk_pc \in {"once", "twice"} /\ ~IsExc(sk_out[1])
SecondReturned == sk_pc = "twice" /\ ~IsExc(sk_out[2])
Unchanged(out) == ~out.rotated /\ out.applied = 0

(* C11: correct_skew rotates only if the magnitude of the angle exceeds
   0.3 degrees (6 ticks); for every angle of magnitude at most 0.3 it
   returns its input image unchanged with an applied angle of 0.0. *)
C11_RotatesOnlyAboveThreshold ==
    FirstReturned =>
        /\ sk_out[1].rotated => Abs(sk_angle[1]) > 6
        /\ Abs(sk_angle[1]) <= 6 => Unchanged(sk_out[1]) /\ sk_img = sk_in

(* C12: correct_skew never rotates by an angle of magnitude above
   max_skew_angle (5.0 degrees, 100 ticks), whether the angle was detected
   or passed by the caller. *)
C12_NeverRotatesBeyondMax ==
    FirstReturned /\ sk_out[1].rotated => Abs(sk_out[1].by) <= 100

(* C13: correct_skew is idempotent: after it rotated an image whose detected
   skew a has 0.3 <= |a| <= 5.0 degrees, the skew detect_skew_angle measures
   on the result is zero, and a second correct_skew returns that image
   unchanged with an applied angle of 0.0. *)
C13_Idempotent ==
    (/\ SecondReturned
     /\ ~sk_arg.given
     /\ sk_out[1].rotated
     /\ Abs(sk_angle[1]) >= 6 /\ Abs(sk_angle[1]) <= 100)
    => sk_angle[2] = 0 /\ Unchanged(sk_out[2])

----------------------------------------------------------------------------
(* Properties of straighten_image.  In a state with pc = "done" the call has
   ended with result; input is the kind of input when it could not be
   decoded and "decoded" otherwise. *)

(* C14: straighten_image never raises: for every input (file path, PIL
   image, array, unsupported type, undecodable file) it returns a dict with
   success and processing_time, in which image is present exactly when
   success is true and error exactly when success is false. *)
C14_AlwaysReturnsResult ==
    pc = "done" =>
        /\ ~IsExc(result)
        /\ {"success", "processing_time"} \subseteq DOMAIN result
        /\ "image" \in DOMAIN result <=> result.success
        /\ "error" \in DOMAIN result <=> ~result.success

C14_Witness ==
    /\ pc = "done"
    /\ input = "decoded"
    /\ skewin.status = "ok"
    /\ "error" \in DOMAIN result
    /\ ~result.success

----------------------------------------------------------------------------
(* Properties of warp_card.  In a state where StrategyEvaluated holds the
   inner loop of strategy Len(c_hist) has just ended on c_contours, made of
   c_found.  In a state with c_pc = "done" the call has ended as c_out
   says. *)

StrategyEvaluated ==
    /\ c_hist # <<>>
    /\ \/ c_pc \in {"detect", "order"}
       \/ c_pc = "done" /\ ~c_out.warped
QuadPassed == c_pc = "done" /\ c_out.warped
Ended == c_pc = "done"
Copies(s, x) == Cardinality({i \in DOMAIN s : s[i] = x})
Meets(c) == c.pts = 4 /\ 10 * c.qarea > ImgArea
NoQuadReason == "No 4-point contour found with any strategy"
ExtremeReason == "Warped image has extreme intensity values"
FailedReason == "Perspective transform failed"
ReviewedFor(reason) ==
    /\ c_out.returned = "manual_review_name"
    /\ c_out.files = {"manual_review_name"}
    /\ c_out.log = <<[file |-> "manual_review_name", reason |-> reason]>>

(* c_contours holds the five largest contours of c_found, largest first *)
FiveLargestDescending ==
    /\ Len(c_contours) = IF Len(c_found) < 5 THEN Len(c_found) ELSE 5
    /\ \A i \in 1..(Len(c_contours) - 1) : c_contours[i].area >= c_contours[i + 1].area
    /\ \A j \in DOMAIN c_contours :
           Copies(c_contours, c_contours[j]) <= Copies(c_found, c_contours[j])
    /\ \A i \in DOMAIN c_found :
           Copies(c_contours, c_found[i]) < Copies(c_found, c_found[i])
               => \A j \in DOMAIN c_contours : c_contours[j].area >= c_found[i].area

(* C15: warp_card takes its quad from the earliest strategy, in the order
   standard, sensitive, aggressive, that has an acceptable candidate, and
   within it the first acceptable candidate among the five largest contours
   in descending order of area; once a candidate is accepted no later
   contour and no later strategy is evaluated. *)
C15_EarliestStrategyFirstAcceptable ==
    /\ StrategyEvaluated =>
           LET k == Len(c_hist)
           IN  /\ FiveLargestDescending
               /\ \A j \in 1..(k - 1) : ~c_hist[j]
               /\ c_hist[k] =>
                      /\ c_examined \in DOMAIN c_contours
                      /\ c_quad = c_contours[c_examined]
                      /\ Meets(c_quad)
                      /\ \A j \in 1..(c_examined - 1) : ~Meets(c_contours[j])
                      /\ c_used = <<"standard", "sensitive", "aggressive">>[k]
                      /\ c_pc = "order"
               /\ ~c_hist[k] =>
                      /\ c_examined = Len(c_contours)
                      /\ \A j \in DOMAIN c_contours : ~Meets(c_contours[j])
                      /\ c_quad = NoQuad
    /\ (c_pc = "warp" \/ QuadPassed) =>
           /\ c_hist # <<>>
           /\ c_hist[Len(c_hist)]
           /\ \A j \in 1..(Len(c_hist) - 1) : ~c_hist[j]
           /\ c_used = <<"standard", "sensitive", "aggressive">>[Len(c_hist)]

C15_Witness ==
    /\ c_pc = "order"
    /\ c_used = "sensitive"
    /\ Len(c_found) = 6
    /\ c_found[6] = c_quad
    /\ c_found[1].pts = 4 /\ ~Meets(c_found[1])
    /\ c_examined = 3

(* C16: every quad handed to the perspective transform is a 4-point polygon
   that encloses at least 10% of the image area; a 4-point candidate below
   that fraction is never warped. *)
C16_WarpedQuadIsLargeQuadrilateral ==
    /\ (c_pc \in {"order", "warp"} \/ QuadPassed) =>
           /\ c_quad # NoQuad
           /\ c_quad.pts = 4
           /\ 10 * c_quad.qarea >= ImgArea
    /\ c_quad # NoQuad => ~(c_quad.pts = 4 /\ 10 * c_quad.qarea < ImgArea)

C16_Witness ==
    /\ c_pc = "order"
    /\ c_hist = <<FALSE, TRUE>>
    /\ \E j \in DOMAIN c_contours :
           c_contours[j].pts = 4 /\ 10 * c_contours[j].qarea < ImgArea
    /\ c_quad.pts = 4 /\ c_quad.qarea = 50

(* C17: when no strategy yields an acceptable quad, warp_card ends with a
   manual-review artifact whose reason is the no-4-point-contour reason,
   without raising, without attempting a warp and without writing a crop
   file. *)
NoStrategyYields == Len(c_hist) = 3 /\ \A j \in 1..3 : ~c_hist[j]
C17_NoQuadGoesToManualReview ==
    NoStrategyYields =>
        /\ c_pc = "done"
        /\ ~c_out.exception
        /\ ReviewedFor(NoQuadReason)
        /\ ~c_out.warped
        /\ "crop_name" \notin c_out.files

C17_Witness ==
    /\ NoStrategyYields
    /\ c_found = <<>>
    /\ c_pc = "done"
    /\ c_out.returned = "manual_review_name"

(* C18: warp_card writes and returns a crop only if the mean intensity of
   the warped image lies in [10, 245]; a mean below 10 or above 245 always
   ends in a manual-review artifact with the extreme-intensity reason; the
   boundary values 10 and 245 are accepted. *)
C18_CropOnlyWithinIntensityRange ==
    Ended =>
        /\ "crop_name" \in c_out.files => c_out.mean >= 10 /\ c_out.mean <= 245
        /\ (c_out.mean # NoMean /\ (c_out.mean < 10 \/ c_out.mean > 245)) =>
               /\ ~c_out.exception
               /\ ReviewedFor(ExtremeReason)
        /\ c_out.mean \in {10, 245} =>
               /\ ~ReviewedFor(ExtremeReason)
               /\ c_out.error = "none" => c_out.returned = "crop_name"

C18_Witness ==
    /\ Ended
    /\ c_out.mean = 245
    /\ c_out.returned = "crop_name"
    /\ "crop_name" \in c_out.files

(* C19: any error the transform library raises in the warp stage (the
   perspective transform, the warp, the sanity check, the deskew refinement,
   the write) is caught and turned into a manual-review artifact; warp_card
   lets no exception out of the warp stage. *)
C19_TransformErrorsAreCaught ==
    QuadPassed =>
        /\ ~c_out.exception
        /\ c_out.error # "none" => ReviewedFor(FailedReason)

C19_Witness ==
    /\ QuadPassed
    /\ c_out.error = "warpAffine"
    /\ c_out.mean = 128
    /\ c_out.returned = "manual_review_name"

(* C20: every call of warp_card that returns ends in exactly one of two
   ways: the crop file crop_<name> is written and its path returned, or the
   copy manual_review_<name> is made, its path returned and exactly one line
   "<manual_review name>: <reason>" appended to manual_review.log; never
   both, and a crop appends nothing to the log. *)
CropOutcome ==
    /\ c_out.returned = "crop_name"
    /\ c_out.files = {"crop_name"}
    /\ c_out.log = <<>>
ManualOutcome ==
    /\ c_out.returned = "manual_review_name"
    /\ c_out.files = {"manual_review_name"}
    /\ Len(c_out.log) = 1
    /\ c_out.log[1].file = "manual_review_name"
C21_CropHasCanonicalSize ==
    (Ended /\ "crop_name" \in c_out.files) =>
        /\ c_out.size = <<856, 540>>
        /\ c_out.deskew # 0 => Abs(c_out.deskew) > 20

C21_Witness ==
    /\ Ended
    /\ "crop_name" \in c_out.files
    /\ c_out.deskew = 22
    /\ c_out.size = <<856, 540>>

(* C22: the corner ordering of warp_card (TL = least x+y, BR = greatest x+y,
   TR = least y-x, BL = greatest y-x) yields a permutation of the four
   vertices of the quad: for every accepted quad, a diamond included, each
   vertex is assigned to exactly one of TL, TR, BR, BL and none is used
   twice. *)
C22_CornersArePermutation ==
    c_pc = "warp" =>
        /\ {c_pts.src[i] : i \in 1..4} = {c_pts.quad[i] : i \in 1..4}
        /\ \A i, j \in 1..4 : i # j => c_pts.src[i] # c_pts.src[j]

----------------------------------------------------------------------------
(* Further properties of the straightening pipeline *)

(* C23: in detect_skew_angle every segment angle that enters the median lies
   in [-45, 45] degrees (900 ticks): for every non-vertical segment, with
   either order of its endpoints and so a raw angle anywhere in (-180, 180],
   the single fold by 90 degrees leaves the value in that range. *)
C23_FoldedWithin45 ==
    (Detected /\ skewin.status = "ok") =>
        \A i \in DOMAIN SegmentAngles(skewin.lines) :
            Abs(SegmentAngles(skewin.lines)[i]) <= 900

(* C24: in every successful result of straighten_image,
   skew_correction.applied is true exactly when correct_skew rotated the
   image, and skew_correction.angle_applied is 0 exactly when it did not,
   also for a detected angle of exactly 0.3 degrees. *)
C24_AppliedIffRotated ==
    Succeeded =>
        /\ result.skew_correction.applied <=> result.image.skew_rotation # 0
        /\ result.skew_correction.angle_applied = 0 <=> result.image.skew_rotation = 0

(* C27: an estimate measured by the CNN or the OSD stage is never replaced
   by a no-evidence default: when the geometry stage finds no lines
   (geometry_default) or raises (default), detect_orientation returns the
   measured estimate, whatever its confidence. *)
C27_MeasuredNeverReplacedByDefault ==
    (Returned /\ est.method \in {"geometry_default", "default"}) =>
        cnn.status # "ok" /\ osd.status # "ok"

----------------------------------------------------------------------------
(* Properties of _geometry_fallback.  g_out is what it returned for the
   lines of g_in. *)

FoundLines == g_in.status = "ok" /\ Len(g_in.lines) > 0
Counted == SubSeq(g_in.lines, 1, IF Len(g_in.lines) < 20 THEN Len(g_in.lines) ELSE 20)
Votes(b) == Cardinality({i \in 1..Len(Counted) : Bucket(LineAngle(Counted[i])) = b})
(* the distance on the circle between an angle and a right angle *)
CircDist(angle, b) ==
    LET d == ((angle - b) + 720) % 360
    IN  IF d > 180 THEN 360 - d ELSE d

(* C25: when the geometry estimator finds lines it buckets each of at most
   the first 20 line angles into the nearest of 0, 90, 180, 270, returns the
   bucket with the most votes, the smallest angle on ties, and the
   confidence winning votes / counted lines, which lies in [0.25, 1]. *)
C25_MajorityBucketOfFirstTwenty ==
    FoundLines =>
        /\ \A i \in 1..Len(Counted) :
               \A b \in {0, 90, 180, 270} :
                   CircDist(LineAngle(Counted[i]), Bucket(LineAngle(Counted[i])))
                       <= CircDist(LineAngle(Counted[i]), b)
        /\ g_out.method = "geometry"
        /\ g_out.angle \in {0, 90, 180, 270}
        /\ \A b \in {0, 90, 180, 270} :
               /\ Votes(b) <= Votes(g_out.angle)
               /\ Votes(b) = Votes(g_out.angle) => g_out.angle <= b
        /\ ConfEq(g_out.confidence, Conf(Votes(g_out.angle), Len(Counted)))
        /\ ConfLe(Conf(1, 4), g_out.confidence)
        /\ ConfLe(g_out.confidence, Conf(1, 1))

C25_Witness ==
    /\ FoundLines
    /\ Len(g_in.lines) = 21
    /\ g_in.lines[1] = 135 /\ g_in.lines[10] = 135
    /\ g_in.lines[11] = 136 /\ g_in.lines[21] = 136
    /\ g_out.angle = 0
    /\ ConfEq(g_out.confidence, Conf(1, 2))

(* C26: each of 0, 90, 180 and 270 is a reachable output of the geometry
   estimator: among the (rho, theta) lines of the standard Hough transform,
   theta in [0, 180) degrees and line angle theta - 90, there are line sets
   whose winning bucket is 180: whenever the estimator is about to be
   called, some line set it can be handed makes it return 180.  A bucket
   wins only if a line falls into it, so one-line sets decide. *)
C26_Bucket180Reachable ==
    g_in = NoStage => \E t \in HoughThetas : geometry_fallback(OneLine(t)).angle = 180

----------------------------------------------------------------------------
(* Properties of optimized_straightener.  In a state with o_pc = "done"
   complete_straightening has ended as o_out says; o_path # "none" there
   means the skew stage ran and detect_skew_angle returned o_skew. *)

(* C28: OptimizedSkewCorrector.detect_skew_angle only returns angles within
   [-8, +8] degrees (160 ticks), whichever candidate of its sweep has the
   largest variance. *)
C28_SweepWithinEight ==
    (o_pc = "done" /\ o_path # "none") =>
        Abs(o_skew) <= 160

(* C29: the OCR-scoring variant handles an undecodable input file without an
   unhandled exception: when detect_best_rotation returns its error result,
   auto_rotate_optimized and complete_straightening return the original
   path, with no rotation, instead of raising. *)
C29_UndecodableReturnsOriginal ==
    (o_pc = "done" /\ "method" \in DOMAIN o_res /\ o_res.method = "error") =>
        /\ ~o_out.exception
        /\ o_out.returned = "name"

----------------------------------------------------------------------------
(* Properties of the API counters. *)

(* C30: after any sequence of /straighten and /remove-background requests,
   successful_requests + failed_requests <= total_requests, and every
   completed request has been counted as exactly one of successful or
   failed, a /straighten request with an unknown return_format included. *)
C30_CountersConsistent ==
    /\ a_succ + a_fail <= a_total
    /\ \A c \in Conns :
          a_req[c].pc = "done" =>
              a_req[c].counted_successful + a_req[c].counted_failed = 1

====
